---------------------------- MODULE Spec2Model ----------------------------
(***************************************************************************)
(* mapcamera_x100vi_stock.py: fetch -> normalize -> candidate extraction   *)
(* -> classification -> report.  Text is a sequence of one-character       *)
(* strings; a non-ASCII character is written by its code point ("u5728"    *)
(* is U+5728).  A value that an operator reads more than once is passed to *)
(* a helper operator as an argument, so that it is computed once.          *)
(***************************************************************************)
EXTENDS Integers, Sequences, FiniteSets, TLC

(***************************************************************************)
(* Module constants of the program.                                        *)
(***************************************************************************)
DEFAULT_WINDOW == 180
TITLE_MAX == 140
SNIPPET_MAX == 220

\* u5728 u5EAB u3042 u308A is the first in-stock keyword, and so on
IN_STOCK_KEYWORDS ==
    << <<"u5728", "u5EAB", "u3042", "u308A">>, <<"u5728", "u5EAB", "u6709">>, <<"u5373", "u7D0D">>, <<"u5F53", "u65E5", "u51FA", "u8377">>, <<"u7FCC", "u65E5", "u51FA", "u8377">>, <<"u6CE8", "u6587", "u53EF", "u80FD">> >>

OUT_OF_STOCK_KEYWORDS ==
    << <<"u5728", "u5EAB", "u306A", "u3057">>, <<"u5165", "u8377", "u5F85", "u3061">>, <<"u304A", "u53D6", "u308A", "u5BC4", "u305B">>, <<"u8CA9", "u58F2", "u7D42", "u4E86">>, <<"u4E88", "u7D04", "u53D7", "u4ED8", "u7D42", "u4E86">>, <<"u58F2", "u308A", "u5207", "u308C">> >>

(***************************************************************************)
(* Python str and re primitives the program uses.                          *)
(***************************************************************************)
\* the characters \s matches and str.strip() removes
WHITESPACE == {" ", "\t", "\n", "\r", "\f"}

ASCII_LOWER ==
    [c \in {"A","B","C","D","E","F","G","H","I","J","K","L","M",
            "N","O","P","Q","R","S","T","U","V","W","X","Y","Z"} |->
        CASE c = "A" -> "a" [] c = "B" -> "b" [] c = "C" -> "c" [] c = "D" -> "d"
          [] c = "E" -> "e" [] c = "F" -> "f" [] c = "G" -> "g" [] c = "H" -> "h"
          [] c = "I" -> "i" [] c = "J" -> "j" [] c = "K" -> "k" [] c = "L" -> "l"
          [] c = "M" -> "m" [] c = "N" -> "n" [] c = "O" -> "o" [] c = "P" -> "p"
          [] c = "Q" -> "q" [] c = "R" -> "r" [] c = "S" -> "s" [] c = "T" -> "t"
          [] c = "U" -> "u" [] c = "V" -> "v" [] c = "W" -> "w" [] c = "X" -> "x"
          [] c = "Y" -> "y" [] c = "Z" -> "z"]

\* re.IGNORECASE compares characters by their case-folded form
lower(c) == IF c \in DOMAIN ASCII_LOWER THEN ASCII_LOWER[c] ELSE c

Max(a, b) == IF a >= b THEN a ELSE b
Min(a, b) == IF a <= b THEN a ELSE b

\* the least and the greatest element of a set of indices, `none` if it is empty
least(S, none) == IF S = {} THEN none ELSE CHOOSE j \in S : \A k \in S : j <= k
greatest(S, none) == IF S = {} THEN none ELSE CHOOSE j \in S : \A k \in S : j >= k

\* text[i:i+len(p)] == p (1-based i)
startswith(text, i, p) ==
    /\ i >= 1
    /\ i + Len(p) - 1 <= Len(text)
    /\ \A k \in 1..Len(p) : text[i + k - 1] = p[k]

\* the same under re.IGNORECASE
startswith_i(text, i, p) ==
    /\ i >= 1
    /\ i + Len(p) - 1 <= Len(text)
    /\ \A k \in 1..Len(p) : lower(text[i + k - 1]) = lower(p[k])

\* the least j >= i where p occurs in text, 0 when there is none
find(text, p, i) ==
    least({j \in i..(Len(text) - Len(p) + 1) : startswith(text, j, p)}, 0)

find_i(text, p, i) ==
    least({j \in i..(Len(text) - Len(p) + 1) : startswith_i(text, j, p)}, 0)

\* Python's `p in text`
contains(text, p) == \E j \in 1..(Len(text) - Len(p) + 1) : startswith(text, j, p)

\* text.strip(): from the first to the last character that is not whitespace
strip_to(text, solid) ==
    IF solid = {} THEN << >> ELSE SubSeq(text, least(solid, 0), greatest(solid, 0))

strip(text) == strip_to(text, {j \in 1..Len(text) : text[j] \notin WHITESPACE})

\* text[:n]
truncate(text, n) == SubSeq(text, 1, Min(n, Len(text)))

\* the first index >= i of a character of text that is in (stop = TRUE) or
\* not in (stop = FALSE) the set, Len(text) + 1 when there is none
span(text, i, set, stop) ==
    least({j \in i..Len(text) : (text[j] \in set) = stop}, Len(text) + 1)

(***************************************************************************)
(* html.unescape: _charref.sub(_replace_charref, s), with the entity table *)
(* html.entities.html5 restricted to the names the modelled pages can      *)
(* spell, and chr() restricted to the code points they can write.          *)
(***************************************************************************)
DIGITS == {"0", "1", "2", "3", "4", "5", "6", "7", "8", "9"}
CHARREF_NAME_STOP == {"\t", "\n", "\f", " ", "<", "&", "#", ";"}
CHARREF_NAME_MAX == 32

HTML5 ==
    (<<"l", "t", ";">> :> <<"<">>) @@ (<<"g", "t", ";">> :> <<">">>) @@ (<<"a", "m", "p", ";">> :> <<"&">>) @@
    (<<"l", "t">> :> <<"<">>) @@ (<<"g", "t">> :> <<">">>) @@ (<<"a", "m", "p">> :> <<"&">>) @@
    (<<"L", "T", ";">> :> <<"<">>) @@ (<<"G", "T", ";">> :> <<">">>) @@ (<<"A", "M", "P", ";">> :> <<"&">>) @@
    (<<"L", "T">> :> <<"<">>) @@ (<<"G", "T">> :> <<">">>) @@ (<<"A", "M", "P">> :> <<"&">>)

CHR == (32 :> " ") @@ (38 :> "&") @@ (60 :> "<") @@ (62 :> ">") @@
       (73 :> "I") @@ (86 :> "V") @@ (88 :> "X")

DigitValue(c) ==
    CASE c = "0" -> 0 [] c = "1" -> 1 [] c = "2" -> 2 [] c = "3" -> 3 [] c = "4" -> 4
      [] c = "5" -> 5 [] c = "6" -> 6 [] c = "7" -> 7 [] c = "8" -> 8 [] c = "9" -> 9

\* int(digits)
RECURSIVE int(_)
int(digits) ==
    IF digits = << >> THEN 0
    ELSE 10 * int(SubSeq(digits, 1, Len(digits) - 1)) + DigitValue(digits[Len(digits)])

\* chr(num); a code point outside the table is an opaque character
chr(num) == IF num \in DOMAIN CHR THEN << CHR[num] >> ELSE << "uFFFF" >>

\* the numeric branch of _replace_charref
numeric_charref(num) ==
    IF num = 0 \/ num > 1114111 \/ (num >= 55296 /\ num <= 57343) THEN << "uFFFD" >>
    ELSE chr(num)

\* the longest proper prefix s[:x], len(s) > x > 1, that names an entity; 0 if none
longest_entity_prefix(s) ==
    greatest({x \in 2..(Len(s) - 1) : SubSeq(s, 1, x) \in DOMAIN HTML5}, 0)

\* the named branch of _replace_charref, x the longest prefix that is a name
named_charref(s, x) ==
    IF s \in DOMAIN HTML5 THEN HTML5[s]
    ELSE IF x > 0 THEN HTML5[SubSeq(s, 1, x)] \o SubSeq(s, x + 1, Len(s))
    ELSE << "&" >> \o s

\* _replace_charref on the group after "&": s is "#" digits [";"] or a name [";"]
_replace_charref(s) ==
    IF s[1] = "#"
    THEN numeric_charref(int(SubSeq(s, 2, IF s[Len(s)] = ";" THEN Len(s) - 1 ELSE Len(s))))
    ELSE named_charref(s, longest_entity_prefix(s))

\* ;? at j
optional_semicolon(text, j) == IF j <= Len(text) /\ text[j] = ";" THEN j + 1 ELSE j

\* a reference body that starts at `from` and whose digits or name end before e
charref_close(text, from, e) == IF e > from THEN optional_semicolon(text, e) ELSE 0

\* the end (exclusive) of the _charref match starting at the "&" at i, 0 if none:
\* &(#[0-9]+;?|[^\t\n\f <&#;]{1,32};?)
charref_end(text, i) ==
    IF i < 1 \/ i + 1 > Len(text) THEN 0
    ELSE IF text[i + 1] = "#"
    THEN charref_close(text, i + 2, span(text, i + 2, DIGITS, FALSE))
    ELSE charref_close(text, i + 1,
             Min(span(text, i + 1, CHARREF_NAME_STOP, TRUE), i + 1 + CHARREF_NAME_MAX))

\* _charref.sub: each match from the left, the text between the matches kept
RECURSIVE unescape_from(_, _)
RECURSIVE unescape_at(_, _, _)
RECURSIVE unescape_ref(_, _, _, _)
unescape_from(text, i) ==
    unescape_at(text, i,
        least({j \in i..Len(text) : text[j] = "&" /\ charref_end(text, j) > 0}, 0))

unescape_at(text, i, amp) ==
    IF amp = 0 THEN SubSeq(text, i, Len(text))
    ELSE unescape_ref(text, i, amp, charref_end(text, amp))

unescape_ref(text, i, amp, e) ==
    SubSeq(text, i, amp - 1) \o _replace_charref(SubSeq(text, amp + 1, e - 1))
        \o unescape_from(text, e)

unescape(value) == unescape_from(value, 1)

(***************************************************************************)
(* normalize_text                                                          *)
(***************************************************************************)
\* re.sub(r"<[^>]+>", " ", text): a match starts at a "<" that is followed by
\* a character other than ">" and, later, by a ">"; it ends at the first such ">"
RECURSIVE strip_tags(_, _)
RECURSIVE strip_tag_at(_, _, _)
strip_tags(text, i) ==
    strip_tag_at(text, i,
        least({j \in i..(Len(text) - 2) :
                  /\ text[j] = "<" /\ text[j + 1] /= ">"
                  /\ \E k \in (j + 2)..Len(text) : text[k] = ">"}, 0))

strip_tag_at(text, i, lt) ==
    IF lt = 0 THEN SubSeq(text, i, Len(text))
    ELSE SubSeq(text, i, lt - 1) \o <<" ">> \o strip_tags(text, find(text, << ">" >>, lt + 2) + 1)

\* re.sub(r"\s+", " ", text): the first character of a run of whitespace becomes
\* a space, the rest of the run goes ("" marks a dropped character)
collapse_whitespace(text) ==
    SelectSeq([j \in 1..Len(text) |->
                  IF text[j] \notin WHITESPACE THEN text[j]
                  ELSE IF j > 1 /\ text[j - 1] \in WHITESPACE THEN ""
                  ELSE " "],
              LAMBDA c : c /= "")

normalize_text(value) == strip(collapse_whitespace(strip_tags(unescape(value), 1)))

(***************************************************************************)
(* detect_stock: "True", "False" or "None"                                 *)
(***************************************************************************)
\* `for kw in keywords: if kw in text: return ...` reaches its return
RECURSIVE any_keyword_in(_, _, _)
any_keyword_in(keywords, k, text) ==
    IF k > Len(keywords) THEN FALSE
    ELSE IF contains(text, keywords[k]) THEN TRUE
    ELSE any_keyword_in(keywords, k + 1, text)

\* detect_stock with the two loops in the other order
detect_stock_out_first(text) ==
    IF any_keyword_in(OUT_OF_STOCK_KEYWORDS, 1, text) THEN "False"
    ELSE IF any_keyword_in(IN_STOCK_KEYWORDS, 1, text) THEN "True"
    ELSE "None"

detect_stock(text) ==
    IF any_keyword_in(IN_STOCK_KEYWORDS, 1, text) THEN "True"
    ELSE IF any_keyword_in(OUT_OF_STOCK_KEYWORDS, 1, text) THEN "False"
    ELSE "None"

(***************************************************************************)
(* re: the part of the pattern language the modelled --keyword values and  *)
(* the program's own product-name pattern use: literal characters, \s and  *)
(* the * quantifier; an unclosed "(" , a leading "*" and a trailing "\"    *)
(* are the patterns re.compile rejects (re.error).                         *)
(***************************************************************************)
PRODUCT_PATTERN == <<"X", "1", "0", "0", "\\", "s", "*", "V", "I">>

\* re.compile(pattern) raises re.error
re_error(pattern) ==
    \/ \E i \in 1..Len(pattern) :
          pattern[i] = "(" /\ \A j \in (i + 1)..Len(pattern) : pattern[j] /= ")"
    \/ (pattern /= << >> /\ pattern[1] = "*")
    \/ (pattern /= << >> /\ pattern[Len(pattern)] = "\\"
        /\ (Len(pattern) = 1 \/ pattern[Len(pattern) - 1] /= "\\"))

\* the compiled pattern: a sequence of items, each a literal character or the
\* class \s, maybe starred
RECURSIVE re_compile_from(_, _)
RECURSIVE re_compile_item(_, _, _, _)
re_compile_from(pattern, i) ==
    IF i > Len(pattern) THEN << >>
    ELSE IF pattern[i] = "\\" /\ i + 1 <= Len(pattern) /\ pattern[i + 1] = "s"
    THEN re_compile_item(pattern, i, TRUE, i + 2)
    ELSE re_compile_item(pattern, i, FALSE, i + 1)

re_compile_item(pattern, i, space, j) ==
    IF j <= Len(pattern) /\ pattern[j] = "*"
    THEN << [space |-> space, c |-> pattern[i], star |-> TRUE] >>
             \o re_compile_from(pattern, j + 1)
    ELSE << [space |-> space, c |-> pattern[i], star |-> FALSE] >>
             \o re_compile_from(pattern, j)

re_compile(pattern) == re_compile_from(pattern, 1)

\* the item matches the character at j, under re.IGNORECASE
item_matches(item, text, j) ==
    /\ j >= 1 /\ j <= Len(text)
    /\ IF item.space THEN text[j] \in WHITESPACE ELSE lower(text[j]) = lower(item.c)

\* the end of the longest run of characters the item matches from j
run_end(item, text, j) ==
    least({e \in j..Len(text) : ~item_matches(item, text, e)}, Max(j, Len(text) + 1))

\* re match of items[k..] at i: the index after the match, 0 when there is none
\* (greedy, backtracking from the longest run of a starred item)
RECURSIVE match_items(_, _, _, _)
RECURSIVE star_backtrack(_, _, _, _, _)
RECURSIVE star_try(_, _, _, _, _, _)
match_items(items, k, text, i) ==
    IF k > Len(items) THEN i
    ELSE IF items[k].star
    THEN star_backtrack(items, k, text, i, run_end(items[k], text, i))
    ELSE IF item_matches(items[k], text, i) THEN match_items(items, k + 1, text, i + 1)
    ELSE 0

star_backtrack(items, k, text, lo, j) ==
    star_try(items, k, text, lo, j, match_items(items, k + 1, text, j))

star_try(items, k, text, lo, j, e) ==
    IF e > 0 THEN e
    ELSE IF j > lo THEN star_backtrack(items, k, text, lo, j - 1)
    ELSE 0

\* re.finditer: the matches << start, end >> (1-based start, end exclusive),
\* leftmost first, not overlapping
RECURSIVE finditer(_, _, _)
RECURSIVE finditer_at(_, _, _)
RECURSIVE finditer_match(_, _, _, _)
finditer(items, text, i) ==
    finditer_at(items, text,
        least({j \in i..Len(text) : match_items(items, 1, text, j) > j}, 0))

finditer_at(items, text, s) ==
    IF s = 0 THEN << >> ELSE finditer_match(items, text, s, match_items(items, 1, text, s))

finditer_match(items, text, s, e) == << << s, e >> >> \o finditer(items, text, e)

\* re.search(pattern, text, flags=re.IGNORECASE) is not None
re_search_items(items, text) == \E j \in 1..Len(text) : match_items(items, 1, text, j) > 0

re_search(pattern, text) == re_search_items(re_compile(pattern), text)

(***************************************************************************)
(* find_keyword_contexts                                                   *)
(***************************************************************************)
\* context_of with `end` taken at the end of the match
context_of_before_only(text, match, window) ==
    strip(SubSeq(text, Max(0, (match[1] - 1) - window) + 1,
                 Min(Len(text), match[2] - 1)))

\* text[start:end].strip() around one match
context_of(text, match, window) ==
    strip(SubSeq(text, Max(0, (match[1] - 1) - window) + 1,
                 Min(Len(text), (match[2] - 1) + window)))

\* the loop of lines 81-86 over the matches
contexts_of(text, matches, window) ==
    SelectSeq([k \in 1..Len(matches) |-> context_of(text, matches[k], window)],
              LAMBDA snippet : snippet /= << >>)

find_keyword_contexts(text, keyword_pattern, window) ==
    contexts_of(text, finditer(re_compile(keyword_pattern), text, 1), window)

(***************************************************************************)
(* build_statuses, lines 127-128: re.sub(r"<script[\s\S]*?</script>", " ") *)
(***************************************************************************)
\* a match starts at the first `open` that some `close` follows and ends with
\* the first such `close` (the body is matched lazily)
RECURSIVE remove_elements(_, _, _, _)
RECURSIVE remove_element_at(_, _, _, _, _)
RECURSIVE remove_element_to(_, _, _, _, _, _)
remove_elements(text, open, close, i) ==
    remove_element_at(text, open, close, i, find_i(text, open, i))

remove_element_at(text, open, close, i, s) ==
    IF s = 0 THEN SubSeq(text, i, Len(text))
    ELSE remove_element_to(text, open, close, i, s, find_i(text, close, s + Len(open)))

remove_element_to(text, open, close, i, s, c) ==
    IF c = 0 THEN SubSeq(text, i, Len(text))
    ELSE SubSeq(text, i, s - 1) \o <<" ">> \o remove_elements(text, open, close, c + Len(close))

(***************************************************************************)
(* json.loads, for the JSON the modelled pages can spell: objects, arrays, *)
(* strings (with the escapes \" \\ \/ \b \f \n \r \t \uXXXX), unsigned     *)
(* integers and null / true / false.  A value is                           *)
(*   [t |-> kind, s |-> the string or the digits, m |-> the children]      *)
(* where the children of an object are its items [k |-> key, v |-> value]  *)
(* in insertion order and those of an array are its values.                *)
(***************************************************************************)
JSON_WS == {" ", "\t", "\n", "\r"}
JSON_CONTROL == {"\t", "\n", "\r", "\f"}
HEX_DIGITS == DIGITS \cup {"a", "b", "c", "d", "e", "f", "A", "B", "C", "D", "E", "F"}

json_value(t, s, m) == [t |-> t, s |-> s, m |-> m]

\* a parse result: ok, the value, and the index after it; JSON_FAIL is a raised
\* json.JSONDecodeError
JSON_FAIL == [ok |-> FALSE, v |-> json_value("null", << >>, << >>), i |-> 0]
json_ok(v, i) == [ok |-> TRUE, v |-> v, i |-> i]

skip_ws(s, i) == span(s, i, JSON_WS, FALSE)

HexValue(c) ==
    IF c \in DIGITS THEN DigitValue(c)
    ELSE CASE lower(c) = "a" -> 10 [] lower(c) = "b" -> 11 [] lower(c) = "c" -> 12
           [] lower(c) = "d" -> 13 [] lower(c) = "e" -> 14 [] lower(c) = "f" -> 15

\* the character a backslash escape stands for
json_escape(c) ==
    CASE c = "b" -> "u0008" [] c = "f" -> "\f" [] c = "n" -> "\n"
      [] c = "r" -> "\r" [] c = "t" -> "\t" [] OTHER -> c

\* py_scanstring(s, i, strict=True), i the index after the opening quote; j is
\* the end of the chunk up to the next quote, backslash or control character
RECURSIVE scanstring(_, _, _)
RECURSIVE scanstring_at(_, _, _, _)
scanstring(s, i, acc) ==
    scanstring_at(s, i, acc, span(s, i, {"\"", "\\"} \cup JSON_CONTROL, TRUE))

scanstring_at(s, i, acc, j) ==
    IF j > Len(s) THEN JSON_FAIL
    ELSE IF s[j] = "\"" THEN json_ok(acc \o SubSeq(s, i, j - 1), j + 1)
    ELSE IF s[j] \in JSON_CONTROL THEN JSON_FAIL
    ELSE IF j + 1 > Len(s) THEN JSON_FAIL
    ELSE IF s[j + 1] \in {"\"", "\\", "/", "b", "f", "n", "r", "t"}
    THEN scanstring(s, j + 2, acc \o SubSeq(s, i, j - 1) \o << json_escape(s[j + 1]) >>)
    ELSE IF s[j + 1] = "u" /\ j + 5 <= Len(s)
            /\ \A k \in (j + 2)..(j + 5) : s[k] \in HEX_DIGITS
    THEN scanstring(s, j + 6,
             acc \o SubSeq(s, i, j - 1)
                 \o chr(4096 * HexValue(s[j + 2]) + 256 * HexValue(s[j + 3])
                        + 16 * HexValue(s[j + 4]) + HexValue(s[j + 5])))
    ELSE JSON_FAIL

\* dict(pairs): a repeated key keeps its first position and takes the last value
dict_set(pairs, key, value) ==
    IF \E n \in 1..Len(pairs) : pairs[n].k = key
    THEN [n \in 1..Len(pairs) |->
             IF pairs[n].k = key THEN [k |-> key, v |-> value] ELSE pairs[n]]
    ELSE Append(pairs, [k |-> key, v |-> value])

RECURSIVE scan_once(_, _)
RECURSIVE object_pairs(_, _, _)
RECURSIVE object_key(_, _, _)
RECURSIVE object_colon(_, _, _, _)
RECURSIVE object_value(_, _, _, _)
RECURSIVE object_next(_, _, _)
RECURSIVE object_more(_, _, _)
RECURSIVE array_items(_, _, _)
RECURSIVE array_value(_, _, _)
RECURSIVE array_next(_, _, _)

\* JSONObject: a key whose opening quote is at i - 1, ":", a value, then
\* "}" or "," and the next key
object_pairs(s, i, pairs) == object_key(s, pairs, scanstring(s, i, << >>))

object_key(s, pairs, key) ==
    IF ~key.ok THEN JSON_FAIL ELSE object_colon(s, pairs, key.v, skip_ws(s, key.i))

object_colon(s, pairs, k, colon) ==
    IF colon > Len(s) THEN JSON_FAIL
    ELSE IF s[colon] /= ":" THEN JSON_FAIL
    ELSE object_value(s, pairs, k, scan_once(s, skip_ws(s, colon + 1)))

object_value(s, pairs, k, val) ==
    IF ~val.ok THEN JSON_FAIL
    ELSE object_next(s, dict_set(pairs, k, val.v), skip_ws(s, val.i))

object_next(s, pairs, next) ==
    IF next > Len(s) THEN JSON_FAIL
    ELSE IF s[next] = "}" THEN json_ok(json_value("obj", << >>, pairs), next + 1)
    ELSE IF s[next] /= "," THEN JSON_FAIL
    ELSE object_more(s, pairs, skip_ws(s, next + 1))

object_more(s, pairs, q) ==
    IF q > Len(s) THEN JSON_FAIL
    ELSE IF s[q] /= "\"" THEN JSON_FAIL
    ELSE object_pairs(s, q + 1, pairs)

\* JSONArray: a value at i, then "]" or "," and the next value
array_items(s, i, items) == array_value(s, items, scan_once(s, i))

array_value(s, items, val) ==
    IF ~val.ok THEN JSON_FAIL
    ELSE array_next(s, Append(items, val.v), skip_ws(s, val.i))

array_next(s, items, next) ==
    IF next > Len(s) THEN JSON_FAIL
    ELSE IF s[next] = "]" THEN json_ok(json_value("arr", << >>, items), next + 1)
    ELSE IF s[next] /= "," THEN JSON_FAIL
    ELSE array_items(s, skip_ws(s, next + 1), items)

string_value(r) == IF r.ok THEN json_ok(json_value("str", r.v, << >>), r.i) ELSE JSON_FAIL

object_open(s, j) ==
    IF j > Len(s) THEN JSON_FAIL
    ELSE IF s[j] = "}" THEN json_ok(json_value("obj", << >>, << >>), j + 1)
    ELSE IF s[j] = "\"" THEN object_pairs(s, j + 1, << >>)
    ELSE JSON_FAIL

array_open(s, j) ==
    IF j > Len(s) THEN JSON_FAIL
    ELSE IF s[j] = "]" THEN json_ok(json_value("arr", << >>, << >>), j + 1)
    ELSE array_items(s, j, << >>)

number_value(s, i, e) == json_ok(json_value("num", SubSeq(s, i, e - 1), << >>), e)

\* the scanner's scan_once(s, i)
scan_once(s, i) ==
    IF i > Len(s) THEN JSON_FAIL
    ELSE IF s[i] = "\"" THEN string_value(scanstring(s, i + 1, << >>))
    ELSE IF s[i] = "{" THEN object_open(s, skip_ws(s, i + 1))
    ELSE IF s[i] = "[" THEN array_open(s, skip_ws(s, i + 1))
    ELSE IF startswith(s, i, <<"n", "u", "l", "l">>) THEN json_ok(json_value("null", << >>, << >>), i + 4)
    ELSE IF startswith(s, i, <<"t", "r", "u", "e">>) THEN json_ok(json_value("true", << >>, << >>), i + 4)
    ELSE IF startswith(s, i, <<"f", "a", "l", "s", "e">>) THEN json_ok(json_value("false", << >>, << >>), i + 5)
    ELSE IF s[i] = "0" THEN number_value(s, i, i + 1)
    ELSE IF s[i] \in DIGITS THEN number_value(s, i, span(s, i, DIGITS, FALSE))
    ELSE JSON_FAIL

\* JSON_FAIL also for data after the value ("Extra data")
loads_end(body, r) ==
    IF r.ok /\ skip_ws(body, r.i) = Len(body) + 1 THEN r ELSE JSON_FAIL

json_loads(body) == loads_end(body, scan_once(body, skip_ws(body, 1)))

(***************************************************************************)
(* str() and repr() of a decoded JSON value                                *)
(***************************************************************************)
RECURSIVE join(_, _, _)
join(parts, k, sep) ==
    IF k > Len(parts) THEN << >>
    ELSE IF k = Len(parts) THEN parts[k]
    ELSE parts[k] \o sep \o join(parts, k + 1, sep)

repr_char(c, quote) ==
    CASE c = "\\" -> <<"\\", "\\">>
      [] c = "\n" -> << "\\", "n" >>
      [] c = "\t" -> << "\\", "t" >>
      [] c = "\r" -> << "\\", "r" >>
      [] c = quote -> << "\\", quote >>
      [] OTHER -> << c >>

repr_quoted(s, quote) ==
    << quote >> \o join([n \in 1..Len(s) |-> repr_char(s[n], quote)], 1, << >>)
        \o << quote >>

\* repr(str): single quotes, double quotes when the string has ' and no "
repr_str(s) ==
    repr_quoted(s, IF contains(s, << "'" >>) /\ ~contains(s, << "\"" >>) THEN "\"" ELSE "'")

RECURSIVE repr(_)
repr(v) ==
    CASE v.t = "str" -> repr_str(v.s)
      [] v.t = "num" -> v.s
      [] v.t = "null" -> <<"N", "o", "n", "e">>
      [] v.t = "true" -> <<"T", "r", "u", "e">>
      [] v.t = "false" -> <<"F", "a", "l", "s", "e">>
      [] v.t = "arr" ->
            <<"[">> \o join([n \in 1..Len(v.m) |-> repr(v.m[n])], 1, <<",", " ">>) \o <<"]">>
      [] v.t = "obj" ->
            <<"{">> \o join([n \in 1..Len(v.m) |->
                            repr_str(v.m[n].k) \o <<":", " ">> \o repr(v.m[n].v)], 1, <<",", " ">>) \o <<"}">>

str(v) == IF v.t = "str" THEN v.s ELSE repr(v)

\* item.get(key, "")
get(item, key) ==
    IF \E n \in 1..Len(item.m) : item.m[n].k = key
    THEN (CHOOSE p \in {item.m[n] : n \in 1..Len(item.m)} : p.k = key).v
    ELSE json_value("str", << >>, << >>)

(***************************************************************************)
(* extract_json_product_candidates                                         *)
(***************************************************************************)
QUOTES == {"\"", "'"}
LD_JSON == <<"a", "p", "p", "l", "i", "c", "a", "t", "i", "o", "n", "/", "l", "d", "+", "j", "s", "o", "n">>
SCRIPT_OPEN == <<"<", "s", "c", "r", "i", "p", "t">>
SCRIPT_CLOSE == <<"<", "/", "s", "c", "r", "i", "p", "t", ">">>

\* type=["']application/ld\+json["'] at j, under re.IGNORECASE
ld_type_at(html, j) ==
    /\ startswith_i(html, j, <<"t", "y", "p", "e", "=">>)
    /\ j + 6 + Len(LD_JSON) <= Len(html)
    /\ html[j + 5] \in QUOTES
    /\ startswith_i(html, j + 6, LD_JSON)
    /\ html[j + 6 + Len(LD_JSON)] \in QUOTES

\* <script[^>]*type=...[^>]*> from i to the ">" at gt, and a </script> after it
ld_open_gt(html, i, gt) ==
    IF /\ gt > 0
       /\ \E j \in (i + Len(SCRIPT_OPEN))..(gt - 1) : ld_type_at(html, j)
       /\ find_i(html, SCRIPT_CLOSE, gt + 1) > 0
    THEN gt ELSE 0

\* the ">" that ends the opening tag of a match starting at i (the first ">"
\* after "<script"), 0 when no match starts at i
ld_open_end(html, i) ==
    ld_open_gt(html, i,
        IF startswith_i(html, i, SCRIPT_OPEN)
        THEN find(html, << ">" >>, i + Len(SCRIPT_OPEN)) ELSE 0)

\* re.findall(r"<script[^>]*type=[\"']application/ld\+json[\"'][^>]*>([\s\S]*?)</script>")
RECURSIVE ld_json_blocks(_, _)
RECURSIVE ld_json_block_at(_, _)
RECURSIVE ld_json_block_body(_, _)
RECURSIVE ld_json_block_close(_, _, _)
ld_json_blocks(html, i) ==
    ld_json_block_at(html, least({j \in i..Len(html) : ld_open_end(html, j) > 0}, 0))

ld_json_block_at(html, s) ==
    IF s = 0 THEN << >> ELSE ld_json_block_body(html, ld_open_end(html, s))

ld_json_block_body(html, gt) ==
    ld_json_block_close(html, gt, find_i(html, SCRIPT_CLOSE, gt + 1))

ld_json_block_close(html, gt, close) ==
    << SubSeq(html, gt + 1, close - 1) >> \o ld_json_blocks(html, close + Len(SCRIPT_CLOSE))

\* walk(node): the dicts of the payload, each before the dicts of its values
RECURSIVE walk(_)
RECURSIVE walk_all(_, _)
\* walk without its elif branch: lists are not entered
walk_dicts_only(node) ==
    IF node.t = "obj"
    THEN << node >> \o walk_all([n \in 1..Len(node.m) |-> node.m[n].v], 1)
    ELSE << >>

walk(node) ==
    IF node.t = "obj"
    THEN << node >> \o walk_all([n \in 1..Len(node.m) |-> node.m[n].v], 1)
    ELSE IF node.t = "arr" THEN walk_all(node.m, 1)
    ELSE << >>

walk_all(nodes, k) ==
    IF k > Len(nodes) THEN << >> ELSE walk(nodes[k]) \o walk_all(nodes, k + 1)

\* name_candidate without the test of line 119
name_candidate_unfiltered(name, avail) ==
    IF name /= << >> THEN << strip(name \o <<" ">> \o avail) >> ELSE << >>

\* lines 117-121: what one item appends
name_candidate(name, avail) ==
    IF name /= << >> /\ re_search(PRODUCT_PATTERN, name)
    THEN << strip(name \o <<" ">> \o avail) >>
    ELSE << >>

item_candidate(item) ==
    name_candidate(str(get(item, <<"n", "a", "m", "e">>)), str(get(item, <<"a", "v", "a", "i", "l", "a", "b", "i", "l", "i", "t", "y">>)))

\* lines 114-121 over the walked items
RECURSIVE item_candidates(_, _)
item_candidates(items, k) ==
    IF k > Len(items) THEN << >>
    ELSE item_candidate(items[k]) \o item_candidates(items, k + 1)

payload_candidates(payload) ==
    IF payload.ok THEN item_candidates(walk(payload.v), 1) ELSE << >>

\* lines 97-121: what one block appends
block_candidate(body) ==
    IF body = << >> THEN << >> ELSE payload_candidates(json_loads(body))

RECURSIVE block_candidates(_, _)
block_candidates(blocks, k) ==
    IF k > Len(blocks) THEN << >>
    ELSE block_candidate(strip(blocks[k])) \o block_candidates(blocks, k + 1)

extract_json_product_candidates(html) == block_candidates(ld_json_blocks(html, 1), 1)

(***************************************************************************)
(* build_statuses                                                          *)
(***************************************************************************)
\* lines 140-143
dedup_add(uniq, norm) ==
    IF norm = << >> \/ \E n \in 1..Len(uniq) : uniq[n] = norm THEN uniq
    ELSE Append(uniq, norm)

\* lines 136-143: normalize each candidate, drop the empty and the seen ones
RECURSIVE dedup_from(_, _, _)
dedup_from(contexts, k, uniq) ==
    IF k > Len(contexts) THEN uniq
    ELSE dedup_from(contexts, k + 1, dedup_add(uniq, normalize_text(contexts[k])))

normalize_and_dedup(contexts) == dedup_from(contexts, 1, << >>)

\* the first index of the line of text that holds index i
line_start(text, i) == 1 + greatest({j \in 1..(i - 1) : text[j] = "\n"}, 0)

\* group(0).strip(): from the start of the line to the end of the line where
\* the match that starts at `last` ends
title_span(snippet, items, from, last) ==
    strip(SubSeq(snippet, from,
                 span(snippet, match_items(items, 1, snippet, last), {"\n"}, TRUE) - 1))

\* [^\n]* is greedy: of the matches that start in the line, the last one
title_line(snippet, items, starts, from) ==
    title_span(snippet, items, from,
               greatest({i \in starts : line_start(snippet, i) = from}, 0))

\* the line of the first match
title_match(snippet, items, starts) ==
    IF starts = {} THEN <<"X", "1", "0", "0", "V", "I">>
    ELSE title_line(snippet, items, starts, line_start(snippet, least(starts, 0)))

title_items(snippet, items) ==
    title_match(snippet, items,
                {i \in 1..Len(snippet) : match_items(items, 1, snippet, i) > 0})

\* re.search(r"[^\n]*X100\s*VI[^\n]*", snippet, re.IGNORECASE): group(0).strip(),
\* or "X100VI"
title_of(snippet) == title_items(snippet, re_compile(PRODUCT_PATTERN))

ProductStatus(title, snippet, in_stock) ==
    [title |-> title, snippet |-> snippet, in_stock |-> in_stock]

\* lines 145-149
status_of(snippet) ==
    ProductStatus(truncate(title_of(snippet), TITLE_MAX), truncate(snippet, SNIPPET_MAX),
                  detect_stock(snippet))

\* lines 127-129
plain_text_of(html) ==
    normalize_text(
        remove_elements(remove_elements(html, SCRIPT_OPEN, SCRIPT_CLOSE, 1),
                        <<"<", "s", "t", "y", "l", "e">>, <<"<", "/", "s", "t", "y", "l", "e", ">">>, 1))

\* what build_statuses returns, with the lists it is made from
build_record(plain_text, windowed, structured, uniq) ==
    [plain_text |-> plain_text, windowed |-> windowed, structured |-> structured,
     uniq |-> uniq, statuses |-> [n \in 1..Len(uniq) |-> status_of(uniq[n])]]

build_contexts(plain_text, windowed, structured) ==
    build_record(plain_text, windowed, structured,
                 normalize_and_dedup(windowed \o structured))

build_text(plain_text, keyword_pattern, window, structured) ==
    build_contexts(plain_text, find_keyword_contexts(plain_text, keyword_pattern, window),
                   structured)

build_statuses(html, keyword_pattern, window) ==
    build_text(plain_text_of(html), keyword_pattern, window,
               extract_json_product_candidates(html))

(***************************************************************************)
(* summarize: the lines printed and the code returned                      *)
(***************************************************************************)
STATE_IN_STOCK == <<"u5728", "u5EAB", "u3042", "u308A", "u306E", "u53EF", "u80FD", "u6027">>
STATE_OUT_OF_STOCK == <<"u5728", "u5EAB", "u306A", "u3057", "/", "u8981", "u78BA", "u8A8D">>
STATE_UNKNOWN == <<"u5224", "u5B9A", "u4E0D", "u53EF">>

state_label(in_stock) ==
    IF in_stock = "True" THEN STATE_IN_STOCK
    ELSE IF in_stock = "False" THEN STATE_OUT_OF_STOCK
    ELSE STATE_UNKNOWN

\* the two lines printed for statuses[i]
item_lines(statuses, i) ==
    << [line |-> "item", index |-> i, state |-> state_label(statuses[i].in_stock),
        text |-> statuses[i].title],
       [line |-> "excerpt", index |-> i, state |-> << >>, text |-> statuses[i].snippet] >>

RECURSIVE listing(_, _)
listing(statuses, i) ==
    IF i > Len(statuses) THEN << >>
    ELSE item_lines(statuses, i) \o listing(statuses, i + 1)

summarize(statuses, keyword_label) ==
    IF statuses = << >>
    THEN [code |-> 2,
          out |-> << [line |-> "not_found", index |-> 0, state |-> << >>,
                      text |-> keyword_label] >>]
    ELSE LET has_in_stock == \E n \in 1..Len(statuses) : statuses[n].in_stock = "True"
             header == << [line |-> "header", index |-> 0, state |-> << >>,
                           text |-> keyword_label] >>
             result(found) == << [line |-> IF found THEN "result_found" ELSE "result_none",
                                  index |-> 0, state |-> << >>, text |-> << >>] >>
         IN  IF has_in_stock
             THEN [code |-> 0, out |-> header \o listing(statuses, 1) \o result(TRUE)]
             ELSE [code |-> 1, out |-> header \o listing(statuses, 1) \o result(FALSE)]

(***************************************************************************)
(* The inputs of a run: the command line and what the server answers.      *)
(***************************************************************************)
\* the most text fragments of a modelled page
MaxFrags == 2
\* the small positive value --window takes
MaxWindow == 1
\* the deepest wrapping of a JSON-LD object in lists and objects
MaxDepth == 1

\* line 183: the default of --keyword
DEFAULT_KEYWORD == <<"X", "1", "0", "0", "V", "I">>

\* --keyword: the default, the product-name pattern, a pattern whose matches
\* start with whitespace, and a pattern that is no regular expression
Keywords == {DEFAULT_KEYWORD, PRODUCT_PATTERN, <<"\\", "s", "*", "V", "I">>, <<"(">>}

\* --window is any int (line 185): a negative value, 0, a small value and
\* the default
Windows == {-1, 0, MaxWindow, DEFAULT_WINDOW}

HttpErrorCodes == {404, 503}

TextFragments ==
    { <<"X", "1", "0", "0", "V", "I">>, <<"x", "1", "0", "0", " ", "v", "i">>, <<"X", "1", "0", "0", "&", "#", "8", "6", ";", "I">>, <<"X", "1", "0", "0", "<", "b", ">", "V", "I", "<", "/", "b", ">">>,
      <<"u5728", "u5EAB", "u3042", "u308A">>, <<"u5165", "u8377", "u5F85", "u3061">>, <<" ">>, <<"\n">>,
      <<"&", "l", "t", ";", "u5728", "u5EAB", "u3042", "u308A", "&", "g", "t", ";">>, <<"&", "a", "m", "p", ";", "l", "t", ";", "u5728", "u5EAB", "u3042", "u308A", "&", "a", "m", "p", ";", "g", "t", ";">>, <<"<", "p", ">", "u5728", "u5EAB", "u3042", "u308A", "<", "/", "p", ">">>,
      <<"<", "s", "c", "r", "i", "p", "t", ">", "X", "1", "0", "0", "V", "I", " ", "u5728", "u5EAB", "u3042", "u308A", "<", "/", "s", "c", "r", "i", "p", "t", ">">>, <<"<", "S", "T", "Y", "L", "E", ">", "X", "1", "0", "0", "V", "I", "<", "/", "s", "t", "y", "l", "e", ">">> }

RECURSIVE Texts(_)
Texts(n) ==
    IF n = 0 THEN {<< >>}
    ELSE LET shorter == Texts(n - 1)
         IN  shorter \cup {t \o f : t \in shorter, f \in TextFragments}

JsonLeaves ==
    { <<"{", "\"", "@", "t", "y", "p", "e", "\"", ":", "\"", "P", "r", "o", "d", "u", "c", "t", "\"", ",", "\"", "n", "a", "m", "e", "\"", ":", "\"", "F", "U", "J", "I", "F", "I", "L", "M", " ", "X", "1", "0", "0", "V", "I", "\"", ",", "\"", "a", "v", "a", "i", "l", "a", "b", "i", "l", "i", "t", "y", "\"", ":", "\"", "I", "n", "S", "t", "o", "c", "k", "\"", "}">>,
      <<"{", "\"", "n", "a", "m", "e", "\"", ":", "\"", "X", "1", "0", "0", " ", "V", "I", "\"", "}">>,
      <<"{", "\"", "n", "a", "m", "e", "\"", ":", "\"", "G", "F", "X", "1", "0", "0", "\"", ",", "\"", "a", "v", "a", "i", "l", "a", "b", "i", "l", "i", "t", "y", "\"", ":", "\"", "u5728", "u5EAB", "u3042", "u308A", "\"", "}">>,
      <<"{", "\"", "n", "a", "m", "e", "\"", ":", "\"", "X", "1", "0", "0", "V", "I", "\"", ",", "\"", "a", "v", "a", "i", "l", "a", "b", "i", "l", "i", "t", "y", "\"", ":", "\"", "u5728", "u5EAB", "u3042", "u308A", "\"", "}">>,
      <<"{", "\"", "n", "a", "m", "e", "\"", ":", "\"", "x", "1", "0", "0", "v", "i", "\"", ",", "\"", "a", "v", "a", "i", "l", "a", "b", "i", "l", "i", "t", "y", "\"", ":", "\"", "u5165", "u8377", "u5F85", "u3061", "\"", "}">>,
      <<"{", "\"", "n", "a", "m", "e", "\"", ":", "\"", "X", "1", "0", "0", "V", "I", "\"", ",", "}">> }

JsonWrappers(body) ==
    { <<"[">> \o body \o <<"]">>,
      <<"{", "\"", "o", "f", "f", "e", "r", "s", "\"", ":", " ">> \o body \o <<"}">>,
      <<"{", "\"", "n", "a", "m", "e", "\"", ":", "\"", "X", "1", "0", "0", "V", "I", "\"", ",", "\"", "i", "t", "e", "m", "s", "\"", ":", "[">> \o body \o <<",">> \o body \o <<"]", "}">> }

RECURSIVE JsonBodies(_)
JsonBodies(depth) ==
    IF depth = 0 THEN JsonLeaves
    ELSE LET inner == JsonBodies(depth - 1)
         IN  inner \cup UNION {JsonWrappers(b) : b \in inner}

ld_json_script(body) == <<"<", "s", "c", "r", "i", "p", "t", " ", "t", "y", "p", "e", "=", "\"", "a", "p", "p", "l", "i", "c", "a", "t", "i", "o", "n", "/", "l", "d", "+", "j", "s", "o", "n", "\"", ">">> \o body \o <<"<", "/", "s", "c", "r", "i", "p", "t", ">">>

JsonPages ==
    {ld_json_script(b) : b \in JsonBodies(MaxDepth)}
    \cup {<<"X", "1", "0", "0", "V", "I", " ", "u5728", "u5EAB", "u3042", "u308A">> \o ld_json_script(b) : b \in JsonBodies(MaxDepth)}
    \cup {ld_json_script(a) \o <<"<", "S", "C", "R", "I", "P", "T", " ", "T", "Y", "P", "E", "=", "'", "a", "p", "p", "l", "i", "c", "a", "t", "i", "o", "n", "/", "L", "D", "+", "J", "S", "O", "N", "'", " ", "i", "d", "=", "x", ">">> \o b \o <<"<", "/", "S", "C", "R", "I", "P", "T", ">">> :
             a \in JsonLeaves, b \in JsonLeaves}

Pages == Texts(MaxFrags) \cup JsonPages

(***************************************************************************)
(* The inputs of detect_stock and of the dedup loop taken alone.           *)
(***************************************************************************)
\* the most fragments of a snippet given to detect_stock
MaxWords == 2
\* the most candidates of a list given to the dedup loop
MaxCandidates == 2

\* every keyword of the two lists, and pieces that make a keyword only when
\* they are joined
Words ==
    {IN_STOCK_KEYWORDS[k] : k \in 1..Len(IN_STOCK_KEYWORDS)}
    \cup {OUT_OF_STOCK_KEYWORDS[k] : k \in 1..Len(OUT_OF_STOCK_KEYWORDS)}
    \cup { <<"u5728", "u5EAB">>, <<"u3042", "u308A">>, <<"u306A", "u3057">>, <<"X", "1", "0", "0", "V", "I", " ">>, <<"I", "n", "S", "t", "o", "c", "k">> }

RECURSIVE Snippets(_)
Snippets(n) ==
    IF n = 0 THEN {<< >>}
    ELSE LET shorter == Snippets(n - 1)
         IN  shorter \cup {t \o f : t \in shorter, f \in Words}

\* candidates as the two strategies hand them to the loop: window candidates
\* (substrings of a text normalize_text returned) and JSON-LD candidates
Candidates ==
    { <<"X", "1", "0", "0", "V", "I">>, <<"X", "1", "0", "0", "V", "I", " ", "u5728", "u5EAB", "u3042", "u308A">>, <<"x", "1", "0", "0", "v", "i">>, <<"X", "1", "0", "0", "V", "I", " ", "&", "a", "m", "p", ";", " ", "l", "e", "n", "s">>, <<"X", "1", "0", "0", "V", "I", " ", "&", "l", "t", ";", "u5728", "u5EAB", "u3042", "u308A", "&", "g", "t", ";">>,
      <<"X", "1", "0", "0", "V", "I", " ", "&", "a", "m", "p", ";", "l", "t", ";">>, <<"X", "1", "0", "0", "V", "I", " ", "<", "b", ">", "n", "e", "w", "<", "/", "b", ">">>, <<"X", "1", "0", "0", " ", " ", "V", "I">>, <<"F", "U", "J", "I", "F", "I", "L", "M", " ", "X", "1", "0", "0", "V", "I", " ", " ", " ", "I", "n", "S", "t", "o", "c", "k">>,
      <<"&", "l", "t", ";", "X", "1", "0", "0", "V", "I", "&", "g", "t", ";">>, <<"X", "1", "0", "0", "V", "I", " ", "&", "#", "3", "8", ";", "a", "m", "p", ";">> }

RECURSIVE CandidateLists(_)
CandidateLists(n) ==
    IF n = 0 THEN {<< >>}
    ELSE LET shorter == CandidateLists(n - 1)
         IN  shorter \cup {Append(l, c) : l \in shorter, c \in Candidates}

(***************************************************************************)
(* The run of main().                                                      *)
(***************************************************************************)
VARIABLES
    pc,           \* "start", "fetched", "built", "done" (main); "detect",
                  \* "detected"; "dedup", "deduped", "rededuped"
    keyword,      \* args.keyword
    window,       \* args.window
    fetch_calls,  \* how many times fetch_html was called
    fetch_error,  \* the exception fetch_html raised, NO_ERROR if it returned
    html,         \* what fetch_html returned
    calls,        \* the functions main called, in order
    built,        \* build_statuses' result and the lists it is made from
    stdout,       \* the lines printed to sys.stdout
    stderr,       \* the lines printed to sys.stderr
    exit_code,    \* the process's exit status, -1 while it runs
    uncaught,     \* the exception that ended main, "none" if it returned
    detect_arg,   \* the snippet given to detect_stock
    detect_ret,   \* what detect_stock returned, "unset" before the call
    dedup_arg,    \* the candidate list given to lines 136-143
    dedup_once,   \* uniq after one pass
    dedup_twice   \* uniq after a pass over dedup_once

vars == << pc, keyword, window, fetch_calls, fetch_error, html, calls, built,
           stdout, stderr, exit_code, uncaught,
           detect_arg, detect_ret, dedup_arg, dedup_once, dedup_twice >>

main_vars == << keyword, window, fetch_calls, fetch_error, html, calls, built,
                stdout, stderr, exit_code, uncaught >>
detect_vars == << detect_arg, detect_ret >>
dedup_vars == << dedup_arg, dedup_once, dedup_twice >>

NOT_BUILT ==
    [plain_text |-> << >>, windowed |-> << >>, structured |-> << >>, uniq |-> << >>,
     statuses |-> << >>]

NO_ERROR == [kind |-> "none", code |-> 0, reason |-> "none"]

\* main() before its first statement, for the given command line
main_start(kw, w) ==
    /\ keyword = kw
    /\ window = w
    /\ fetch_calls = 0
    /\ fetch_error = NO_ERROR
    /\ html = << >>
    /\ calls = << >>
    /\ built = NOT_BUILT
    /\ stdout = << >>
    /\ stderr = << >>
    /\ exit_code = -1
    /\ uncaught = "none"

detect_start(text) == detect_arg = text /\ detect_ret = "unset"

dedup_start(list) == dedup_arg = list /\ dedup_once = << >> /\ dedup_twice = << >>

Init ==
    /\ pc = "start"
    /\ \E kw \in Keywords, w \in Windows : main_start(kw, w)
    /\ detect_start(<< >>)
    /\ dedup_start(<< >>)

\* line 193: fetch_html returns the page
FetchOk ==
    /\ pc = "start"
    /\ \E page \in Pages : html' = page
    /\ fetch_calls' = fetch_calls + 1
    /\ calls' = Append(calls, "fetch_html")
    /\ pc' = "fetched"
    /\ UNCHANGED << keyword, window, fetch_error, built, stdout, stderr, exit_code, uncaught >>
    /\ UNCHANGED << detect_vars, dedup_vars >>

\* the text an except clause of main prints: the label, exc.code for an
\* HTTPError, and exc.reason or str(exc)
HTTP_ERROR_LABEL == <<"H", "T", "T", "P", "u30A8", "u30E9", "u30FC", ":", " ">>
URL_ERROR_LABEL == <<"U", "R", "L", "u30A8", "u30E9", "u30FC", ":", " ">>
FETCH_ERROR_LABEL == <<"u53D6", "u5F97", "u30A8", "u30E9", "u30FC", ":", " ">>

error_message(exc) ==
    IF exc.kind = "HTTPError"
    THEN [label |-> HTTP_ERROR_LABEL, code |-> << exc.code >>, reason |-> exc.reason]
    ELSE IF exc.kind = "URLError"
    THEN [label |-> URL_ERROR_LABEL, code |-> << >>, reason |-> exc.reason]
    ELSE [label |-> FETCH_ERROR_LABEL, code |-> << >>, reason |-> exc.reason]

\* fetch_html raises exc and an except clause of main handles it: one line to
\* stderr, return 3
fetch_failed_falls_through(exc) ==
    /\ pc = "start"
    /\ fetch_calls' = fetch_calls + 1
    /\ calls' = Append(calls, "fetch_html")
    /\ fetch_error' = exc
    /\ stderr' = Append(stderr, error_message(exc))
    /\ pc' = "fetched"
    /\ UNCHANGED << keyword, window, html, built, stdout, exit_code, uncaught >>
    /\ UNCHANGED << detect_vars, dedup_vars >>

fetch_failed(exc) ==
    /\ pc = "start"
    /\ fetch_calls' = fetch_calls + 1
    /\ calls' = Append(calls, "fetch_html")
    /\ fetch_error' = exc
    /\ stderr' = Append(stderr, error_message(exc))
    /\ exit_code' = 3
    /\ pc' = "done"
    /\ UNCHANGED << keyword, window, html, built, stdout, uncaught >>
    /\ UNCHANGED << detect_vars, dedup_vars >>

\* lines 194-196
FetchHTTPError ==
    \E code \in HttpErrorCodes :
        fetch_failed([kind |-> "HTTPError", code |-> code, reason |-> "reason"])

\* lines 197-199
FetchURLError ==
    fetch_failed([kind |-> "URLError", code |-> 0, reason |-> "reason"])

\* lines 200-202
FetchException ==
    fetch_failed([kind |-> "Exception", code |-> 0, reason |-> "str(exc)"])

\* line 204, build_statuses returns
BuildStatuses ==
    /\ pc = "fetched"
    /\ ~re_error(keyword)
    /\ built' = build_statuses(html, keyword, window)
    /\ calls' = Append(calls, "build_statuses")
    /\ pc' = "built"
    /\ UNCHANGED << keyword, window, fetch_calls, fetch_error, html, stdout, stderr,
                    exit_code, uncaught >>
    /\ UNCHANGED << detect_vars, dedup_vars >>

\* line 204, re.finditer (line 81) raises re.error: nothing catches it, the
\* interpreter prints the traceback and exits with status 1
BuildStatusesRaises ==
    /\ pc = "fetched"
    /\ re_error(keyword)
    /\ calls' = Append(calls, "build_statuses")
    /\ uncaught' = "re.error"
    /\ stderr' = Append(stderr, [label |-> <<"T", "r", "a", "c", "e", "b", "a", "c", "k">>, code |-> << >>, reason |-> "re.error"])
    /\ exit_code' = 1
    /\ pc' = "done"
    /\ UNCHANGED << keyword, window, fetch_calls, fetch_error, html, built, stdout >>
    /\ UNCHANGED << detect_vars, dedup_vars >>

\* what line 205 and SystemExit do with summarize's result
report(r) ==
    /\ stdout' = stdout \o r.out
    /\ exit_code' = r.code

\* line 205 and line 209
Summarize ==
    /\ pc = "built"
    /\ report(summarize(built.statuses, keyword))
    /\ calls' = Append(calls, "summarize")
    /\ pc' = "done"
    /\ UNCHANGED << keyword, window, fetch_calls, fetch_error, html, built, stderr, uncaught >>
    /\ UNCHANGED << detect_vars, dedup_vars >>

Next ==
    \/ FetchOk
    \/ FetchHTTPError
    \/ FetchURLError
    \/ FetchException
    \/ BuildStatuses
    \/ BuildStatusesRaises
    \/ Summarize

Spec == Init /\ [][Next]_vars

(***************************************************************************)
(* detect_stock applied to a snippet.                                      *)
(***************************************************************************)
InitDetect ==
    /\ pc = "detect"
    /\ main_start(DEFAULT_KEYWORD, DEFAULT_WINDOW)
    /\ \E text \in Snippets(MaxWords) : detect_start(text)
    /\ dedup_start(<< >>)

\* lines 69-76
DetectStock ==
    /\ pc = "detect"
    /\ detect_ret' = detect_stock(detect_arg)
    /\ pc' = "detected"
    /\ UNCHANGED << main_vars, detect_arg, dedup_vars >>

NextDetect == DetectStock

SpecDetect == InitDetect /\ [][NextDetect]_vars

(***************************************************************************)
(* The dedup loop of build_statuses applied to a list, then to its result. *)
(***************************************************************************)
InitDedup ==
    /\ pc = "dedup"
    /\ main_start(DEFAULT_KEYWORD, DEFAULT_WINDOW)
    /\ detect_start(<< >>)
    /\ \E list \in CandidateLists(MaxCandidates) : dedup_start(list)

\* lines 136-143
Dedup ==
    /\ pc = "dedup"
    /\ dedup_once' = normalize_and_dedup(dedup_arg)
    /\ pc' = "deduped"
    /\ UNCHANGED << main_vars, detect_vars, dedup_arg, dedup_twice >>

\* lines 136-143 again, over the list the first pass returned
DedupAgain ==
    /\ pc = "deduped"
    /\ dedup_twice' = normalize_and_dedup(dedup_once)
    /\ pc' = "rededuped"
    /\ UNCHANGED << main_vars, detect_vars, dedup_arg, dedup_once >>

NextDedup == Dedup \/ DedupAgain

SpecDedup == InitDedup /\ [][NextDedup]_vars

(***************************************************************************)
(* The words of the properties, said by positions in the text and by sets, *)
(* not by the program's loops.                                             *)
(***************************************************************************)
\* text[a .. b]
between(text, a, b) == [i \in 1..(b - a + 1) |-> text[a + i - 1]]

\* p is the part of text that starts at a
occurs_at(text, a, p) ==
    /\ a >= 1
    /\ a + Len(p) - 1 <= Len(text)
    /\ \A i \in 1..Len(p) : text[a + i - 1] = p[i]

\* p is a substring of text
occurs(text, p) == p = << >> \/ \E a \in 1..Len(text) : occurs_at(text, a, p)

\* some keyword of the list is a substring of text
has_keyword(text, keywords) == \E k \in 1..Len(keywords) : occurs(text, keywords[k])

\* text from the first to the last of the indices in solid
from_to(text, solid) ==
    IF solid = {} THEN << >> ELSE between(text, least(solid, 0), greatest(solid, 0))

\* text[a .. b] without the whitespace at its ends
trimmed(text, a, b) == from_to(text, {j \in a..b : text[j] \notin WHITESPACE})

\* a pattern item accepts the character, case ignored
accepts(item, c) == IF item.space THEN c \in WHITESPACE ELSE lower(c) = lower(item.c)

\* the starred item of a pattern that has at most one, 0 if it has none
starred(items) == greatest({k \in 1..Len(items) : items[k].star}, 0)

\* text[s .. e-1] is in the language of the pattern, the starred item q (if
\* any) taking r characters and every other item one
spells(items, text, s, q, r) ==
    /\ r >= 0
    /\ q = 0 => r = 0
    /\ \A k \in 1..Len(items) :
          IF k = q
          THEN \A j \in 0..(r - 1) : accepts(items[k], text[s + (k - 1) + j])
          ELSE accepts(items[k], text[s + (k - 1) + (IF q > 0 /\ k > q THEN r - 1 ELSE 0)])

\* << s, e >> is a match of the pattern in text (e is the index after it)
is_match(items, text, s, e, q) ==
    spells(items, text, s, q, (e - s) - (Len(items) - (IF q > 0 THEN 1 ELSE 0)))

\* every non-empty match of the pattern in text
spans_of(items, text, q) ==
    UNION {{<< s, e >> : e \in {e \in (s + 1)..(Len(text) + 1) : is_match(items, text, s, e, q)}} :
             s \in 1..Len(text)}

Spans(items, text) == spans_of(items, text, starred(items))

\* the matches a scan from the left reports: the first to start at or after
\* `from`, the longest of those, then the same after its end
RECURSIVE scan(_, _)
RECURSIVE scan_rest(_, _)
RECURSIVE scan_take(_, _)
scan(S, from) == scan_rest(S, {sp \in S : sp[1] >= from})

scan_rest(S, rest) ==
    IF rest = {} THEN << >>
    ELSE scan_take(S, CHOOSE sp \in rest :
                         \A o \in rest : sp[1] < o[1] \/ (sp[1] = o[1] /\ sp[2] >= o[2]))

scan_take(S, sp) == << sp >> \o scan(S, sp[2])

Matches(pattern, text) == scan(Spans(re_compile(pattern), text), 1)

\* the text within w characters of the match, clamped to the text, trimmed
window_text(text, sp, w) ==
    trimmed(text, Max(1, sp[1] - w), Min(Len(text), (sp[2] - 1) + w))

\* the children of a decoded JSON value, and the values reachable in it by a
\* path of child indices
child(v, n) == IF v.t = "obj" THEN v.m[n].v ELSE v.m[n]

RECURSIVE Paths(_)
Paths(v) ==
    {<< >>} \cup UNION {{<< n >> \o p : p \in Paths(child(v, n))} : n \in 1..Len(v.m)}

RECURSIVE node_at(_, _)
node_at(v, p) == IF p = << >> THEN v ELSE node_at(child(v, p[1]), Tail(p))

\* the text of a field of an object, empty if the object has no such field
field(obj, key) ==
    IF \E n \in 1..Len(obj.m) : obj.m[n].k = key
    THEN str((CHOOSE pair \in {obj.m[n] : n \in 1..Len(obj.m)} : pair.k = key).v)
    ELSE << >>

names_product(name, items) == name /= << >> /\ Spans(items, name) /= {}

\* the decoded payload of each JSON-LD block of the page
payloads_of(blocks) == [k \in 1..Len(blocks) |-> json_loads(strip(blocks[k]))]

Payloads(page) == payloads_of(ld_json_blocks(page, 1))

\* the node is an object whose name matches the pattern
is_named(node, items) == node.t = "obj" /\ names_product(field(node, <<"n", "a", "m", "e">>), items)

\* << block, path >> of every object of a block that parses whose name matches
\* the product-name pattern
named_objects(payloads, items) ==
    UNION {{<< k, p >> : p \in {p \in Paths(payloads[k].v) :
                                   is_named(node_at(payloads[k].v, p), items)}} :
             k \in {k \in 1..Len(payloads) : payloads[k].ok}}

NamedObjects(page) == named_objects(Payloads(page), re_compile(PRODUCT_PATTERN))

\* the name followed by the availability
followed_by(name, avail) == trimmed(name \o <<" ">> \o avail, 1, Len(name) + 1 + Len(avail))

name_and_availability(obj) == followed_by(field(obj, <<"n", "a", "m", "e">>), field(obj, <<"a", "v", "a", "i", "l", "a", "b", "i", "l", "i", "t", "y">>))

candidate_at(payloads, kp) == name_and_availability(node_at(payloads[kp[1]].v, kp[2]))

\* build_statuses has returned
Built == pc \in {"built", "done"} /\ fetch_error.kind = "none" /\ uncaught = "none"

\* main has ended after a fetch that returned
FetchedAndDone == pc = "done" /\ fetch_error.kind = "none"

in_stock_line(out) ==
    \E n \in 1..Len(out) : out[n].line = "item" /\ out[n].state = STATE_IN_STOCK

(***************************************************************************)
(* C1  Every run ends with one exit code of 0..3: 3 iff the fetch raised;  *)
(* otherwise 2 iff the status list built from the page is empty; otherwise *)
(* 0 iff some status is in stock; otherwise 1.                             *)
(***************************************************************************)
C1_ExitCodeDetermined ==
    pc = "done" =>
        /\ exit_code \in 0..3
        /\ uncaught = "none"
        /\ exit_code = 3 <=> fetch_error.kind /= "none"
        /\ fetch_error.kind = "none" =>
              /\ exit_code = 2 <=> built.statuses = << >>
              /\ exit_code = 0 <=>
                    \E n \in 1..Len(built.statuses) : built.statuses[n].in_stock = "True"
              /\ exit_code = 1 <=>
                    /\ built.statuses /= << >>
                    /\ \A n \in 1..Len(built.statuses) : built.statuses[n].in_stock /= "True"

(***************************************************************************)
(* C2  A fetch failure of any of the three kinds is terminal: one fetch    *)
(* attempt, one diagnostic on stderr (with the status code for an HTTP     *)
(* error), nothing on stdout, no extraction, classification or report, and *)
(* exit code 3.                                                            *)
(***************************************************************************)
C2_FetchFailureTerminal ==
    fetch_error.kind /= "none" =>
        /\ pc = "done"
        /\ fetch_calls = 1
        /\ calls = << "fetch_html" >>
        /\ Len(stderr) = 1
        /\ stderr[1].reason = fetch_error.reason
        /\ stderr[1].label =
              (CASE fetch_error.kind = "HTTPError" -> HTTP_ERROR_LABEL
                 [] fetch_error.kind = "URLError" -> URL_ERROR_LABEL
                 [] fetch_error.kind = "Exception" -> FETCH_ERROR_LABEL)
        /\ fetch_error.kind = "HTTPError" => stderr[1].code = << fetch_error.code >>
        /\ stdout = << >>
        /\ built = NOT_BUILT
        /\ uncaught = "none"
        /\ exit_code = 3

C2_Witness ==
    /\ pc = "done"
    /\ fetch_error.kind = "HTTPError"
    /\ stderr = << [label |-> HTTP_ERROR_LABEL, code |-> << 404 >>, reason |-> "reason"] >>
    /\ exit_code = 3

(***************************************************************************)
(* C3  detect_stock is total and three-valued with in-stock precedence:    *)
(* true iff the snippet has an in-stock keyword as a substring, false iff  *)
(* it has none and has an out-of-stock keyword, None iff it has neither.   *)
(***************************************************************************)
three_valued(ret, has_in, has_out) ==
    /\ ret \in {"True", "False", "None"}
    /\ ret = "True" <=> has_in
    /\ ret = "False" <=> (~has_in /\ has_out)
    /\ ret = "None" <=> (~has_in /\ ~has_out)

C3_DetectStockPrecedence ==
    pc = "detected" =>
        three_valued(detect_ret, has_keyword(detect_arg, IN_STOCK_KEYWORDS),
                     has_keyword(detect_arg, OUT_OF_STOCK_KEYWORDS))

\* an out-of-stock keyword first, an in-stock keyword after it
C3_Witness ==
    /\ pc = "detected"
    /\ detect_arg = OUT_OF_STOCK_KEYWORDS[2] \o IN_STOCK_KEYWORDS[1]
    /\ detect_ret = "True"

(***************************************************************************)
(* C4  The normalize-and-dedup step is idempotent: applied to its own      *)
(* output it returns the same strings in the same order.                   *)
(***************************************************************************)
C4_DedupIdempotent == pc = "rededuped" => dedup_twice = dedup_once

(***************************************************************************)
(* C5  As claimed, for the runs that reach the reporter: a page whose      *)
(* markup has no match of the product-name pattern gives an empty status   *)
(* list and exit code 2, whatever --keyword and --window are.              *)
(***************************************************************************)
C5_NoRawMatchExits2 ==
    (FetchedAndDone /\ uncaught = "none"
       /\ Spans(re_compile(PRODUCT_PATTERN), html) = {}) =>
        (built.statuses = << >> /\ exit_code = 2)

(***************************************************************************)
(* C5  As amended: when the normalized text has no match of the --keyword  *)
(* pattern and no JSON-LD object of the page has a name that matches the   *)
(* product-name pattern, the status list is empty, the run prints the      *)
(* not-found line and exits with 2; when --keyword is no regular           *)
(* expression no list is built and re.error ends the run with status 1.    *)
(***************************************************************************)
C5_NoCandidateExits2 ==
    FetchedAndDone =>
        IF re_error(keyword)
        THEN built = NOT_BUILT /\ uncaught = "re.error" /\ exit_code = 1
        ELSE (Spans(re_compile(keyword), built.plain_text) = {} /\ NamedObjects(html) = {}) =>
                /\ built.statuses = << >>
                /\ exit_code = 2
                /\ Len(stdout) = 1
                /\ stdout[1].line = "not_found"

\* the page spells the name with a space, which the default keyword does not match
C5_Witness ==
    /\ pc = "done"
    /\ keyword = DEFAULT_KEYWORD
    /\ html = <<"x", "1", "0", "0", " ", "v", "i">> \o <<"u5165", "u8377", "u5F85", "u3061">>
    /\ exit_code = 2

(***************************************************************************)
(* C6  A fetched page whose normalized text has an in-stock keyword wholly *)
(* within the window of a match of the keyword exits with 0 and the report *)
(* has a "likely in stock" line.                                           *)
(***************************************************************************)
in_stock_within(text, matches, w) ==
    \E n \in 1..Len(matches), k \in 1..Len(IN_STOCK_KEYWORDS), a \in 1..Len(text) :
        /\ occurs_at(text, a, IN_STOCK_KEYWORDS[k])
        /\ a >= matches[n][1] - w
        /\ a + Len(IN_STOCK_KEYWORDS[k]) - 1 <= (matches[n][2] - 1) + w

C6_InStockNearNameExits0 ==
    (FetchedAndDone /\ ~re_error(keyword)
       /\ in_stock_within(built.plain_text, Matches(keyword, built.plain_text), window)) =>
        (exit_code = 0 /\ in_stock_line(stdout))

(***************************************************************************)
(* C7  Every object reachable in a JSON-LD block through objects and lists *)
(* whose name matches the product-name pattern gives exactly one           *)
(* structured candidate, its name followed by its availability; candidates *)
(* are classified by the Japanese keyword lists only, so the schema.org    *)
(* token InStock leaves the candidate undetermined and a page whose only   *)
(* candidate is such a block exits with 1.                                 *)
(***************************************************************************)
as_many(structured, payloads, objects, c) ==
    Cardinality({n \in 1..Len(structured) : structured[n] = c})
      = Cardinality({kp \in objects : candidate_at(payloads, kp) = c})

one_candidate_each(structured, payloads, objects) ==
    /\ Len(structured) = Cardinality(objects)
    /\ \A c \in {candidate_at(payloads, kp) : kp \in objects} :
          as_many(structured, payloads, objects, c)

structured_as_claimed(structured, payloads, items) ==
    one_candidate_each(structured, payloads, named_objects(payloads, items))

C7_StructuredCandidates ==
    Built =>
        /\ structured_as_claimed(built.structured, Payloads(html), re_compile(PRODUCT_PATTERN))
        /\ \A n \in 1..Len(built.statuses) :
              three_valued(built.statuses[n].in_stock,
                           has_keyword(built.uniq[n], IN_STOCK_KEYWORDS),
                           has_keyword(built.uniq[n], OUT_OF_STOCK_KEYWORDS))
        /\ (pc = "done" /\ built.uniq = << <<"F", "U", "J", "I", "F", "I", "L", "M", " ", "X", "1", "0", "0", "V", "I", " ", "I", "n", "S", "t", "o", "c", "k">> >>) =>
              (built.statuses[1].in_stock = "None" /\ exit_code = 1)

\* the block of the claim inside a list inside an object
C7_Witness ==
    /\ pc = "done"
    /\ html = ld_json_script(<<"{", "\"", "o", "f", "f", "e", "r", "s", "\"", ":", " ">> \o
                 <<"{", "\"", "@", "t", "y", "p", "e", "\"", ":", "\"", "P", "r", "o", "d", "u", "c", "t", "\"", ",", "\"", "n", "a", "m", "e", "\"", ":", "\"", "F", "U", "J", "I", "F", "I", "L", "M", " ", "X", "1", "0", "0", "V", "I", "\"", ",", "\"", "a", "v", "a", "i", "l", "a", "b", "i", "l", "i", "t", "y", "\"", ":", "\"", "I", "n", "S", "t", "o", "c", "k", "\"", "}">> \o <<"}">>)
    /\ built.structured = << <<"F", "U", "J", "I", "F", "I", "L", "M", " ", "X", "1", "0", "0", "V", "I", " ", "I", "n", "S", "t", "o", "c", "k">> >>
    /\ exit_code = 1

(***************************************************************************)
(* C8  After a fetch that returned, main reaches the reporter and returns  *)
(* 0, 1 or 2 for every page, --keyword and --window; a JSON-LD block that  *)
(* does not parse is skipped and the other candidates are as if the block  *)
(* were absent.                                                            *)
(***************************************************************************)
well_formed(payloads, blocks) ==
    SelectSeq([k \in 1..Len(blocks) |-> IF payloads[k].ok THEN blocks[k] ELSE << >>],
              LAMBDA b : b /= << >>)

C8_ExtractionNeverAborts ==
    FetchedAndDone =>
        /\ uncaught = "none"
        /\ calls = << "fetch_html", "build_statuses", "summarize" >>
        /\ exit_code \in {0, 1, 2}
        /\ built.structured =
              block_candidates(well_formed(Payloads(html), ld_json_blocks(html, 1)), 1)

(***************************************************************************)
(* C9  The normalizer removes script and style bodies, then strips the     *)
(* remaining tags, then decodes the entities, then collapses whitespace    *)
(* and trims; text written with &lt; and &gt; stays as literal characters, *)
(* and the output has no two whitespace characters in a row and none at    *)
(* its ends.                                                               *)
(***************************************************************************)
normalize_as_stated(reduced_html) ==
    strip(collapse_whitespace(unescape(strip_tags(reduced_html, 1))))

single_spaced(text) ==
    /\ \A j \in 1..(Len(text) - 1) : ~(text[j] \in WHITESPACE /\ text[j + 1] \in WHITESPACE)
    /\ text /= << >> => (text[1] \notin WHITESPACE /\ text[Len(text)] \notin WHITESPACE)

C9_NormalizerOrder ==
    Built =>
        /\ built.plain_text =
              normalize_as_stated(
                  remove_elements(remove_elements(html, SCRIPT_OPEN, SCRIPT_CLOSE, 1),
                                  <<"<", "s", "t", "y", "l", "e">>, <<"<", "/", "s", "t", "y", "l", "e", ">">>, 1))
        /\ single_spaced(built.plain_text)

(***************************************************************************)
(* C10  As claimed, for the default --keyword and --window: one context    *)
(* per match in the normalized text of the default pattern, which accepts  *)
(* the name with inner whitespace ("X100VI" and "X100 VI"); each context   *)
(* is the trimmed text within `window` characters of its match and         *)
(* contains the match.                                                     *)
(***************************************************************************)
contexts_as_claimed(text, matches, w, out) ==
    /\ Len(out) = Len(matches)
    /\ \A n \in 1..Len(matches) :
          /\ out[n] = window_text(text, matches[n], w)
          /\ occurs(out[n], between(text, matches[n][1], matches[n][2] - 1))

C10_ContextPerMatch ==
    (Built /\ keyword = DEFAULT_KEYWORD /\ window = DEFAULT_WINDOW) =>
        contexts_as_claimed(built.plain_text, Matches(PRODUCT_PATTERN, built.plain_text),
                            window, built.windowed)

(***************************************************************************)
(* C10  As amended: the default pattern is the literal X100VI (it does not *)
(* accept "X100 VI"); for each match of the keyword pattern, in match      *)
(* order, the trimmed text from at most `window` characters before the     *)
(* match to at most `window` characters after it is emitted as a separate  *)
(* entry unless it is empty; for a window of 0 or more each context        *)
(* contains its match less the whitespace at the ends of the match.        *)
(***************************************************************************)
contexts_as_amended(text, matches, w, out) ==
    /\ out = SelectSeq([n \in 1..Len(matches) |-> window_text(text, matches[n], w)],
                       LAMBDA c : c /= << >>)
    /\ w >= 0 =>
          \A n \in 1..Len(matches) :
              occurs(window_text(text, matches[n], w), window_text(text, matches[n], 0))

C10_ContextPerMatchOfKeyword ==
    /\ re_compile(DEFAULT_KEYWORD) = [k \in 1..Len(DEFAULT_KEYWORD) |->
                                         [space |-> FALSE, c |-> DEFAULT_KEYWORD[k],
                                          star |-> FALSE]]
    /\ Built =>
          contexts_as_amended(built.plain_text, Matches(keyword, built.plain_text),
                              window, built.windowed)

\* two matches one after the other: their windows overlap, two contexts
C10_Witness ==
    /\ pc = "built"
    /\ keyword = PRODUCT_PATTERN
    /\ window = 1
    /\ html = <<"X", "1", "0", "0", "V", "I">> \o <<"x", "1", "0", "0", " ", "v", "i">>
    /\ built.windowed = << <<"X", "1", "0", "0", "V", "I", "x">>, <<"I", "x", "1", "0", "0", " ", "v", "i">> >>

=============================================================================
